---- MODULE Spec2Model ----
(***************************************************************************)
(* Model of the code-execution handler executeCode (src/vite.config.ts,    *)
(* lines 201-328): request validation, the per-request sandbox with its    *)
(* capturing console, the virtual file table, the virtual require          *)
(* (resolution, cache, module execution), the top-level unit run under a   *)
(* vm timeout, and the normalisation of the outcome into a response.       *)
(*                                                                         *)
(* JavaScript strings are sequences of one-character strings, so that the  *)
(* regular-expression rewriting of the resolver is computed as the code    *)
(* computes it.  Submitted programs are sequences of abstract statements   *)
(* (console call, throw, require, try-require, busy work, endless loop,    *)
(* await, return, assignment to module.exports); they use the console      *)
(* only through log/warn/error and contain no quote character in paths.    *)
(***************************************************************************)
EXTENDS Integers, Sequences, FiniteSets, TLC

(***************************************************************************)
(* Strings                                                                 *)
(***************************************************************************)
Slash == <<"/">>

\* s.replace(/\\/g, '/')
ReplaceBackslashes(s) == [i \in 1..Len(s) |-> IF s[i] = "\\" THEN "/" ELSE s[i]]

\* s.startsWith(p)
StartsWith(s, p) == Len(s) >= Len(p) /\ SubSeq(s, 1, Len(p)) = p

\* position of the last '/' of s, 0 when there is none
LastSlash(s) ==
    IF \E i \in 1..Len(s) : s[i] = "/"
    THEN CHOOSE i \in 1..Len(s) : s[i] = "/" /\ \A j \in (i+1)..Len(s) : s[j] # "/"
    ELSE 0

\* stackTop.split('/').slice(0, -1).join('/')
DirName(p) == IF LastSlash(p) = 0 THEN <<>> ELSE SubSeq(p, 1, LastSlash(p) - 1)

\* s.replace(/\/\.\//g, '/') : leftmost matches, never overlapping
RECURSIVE ReplaceDotSegments(_)
ReplaceDotSegments(s) ==
    IF Len(s) < 3 THEN s
    ELSE IF s[1] = "/" /\ s[2] = "." /\ s[3] = "/"
         THEN Slash \o ReplaceDotSegments(SubSeq(s, 4, Len(s)))
         ELSE <<s[1]>> \o ReplaceDotSegments(Tail(s))

\* length of the run of non-slash characters that starts at position i of s
RECURSIVE SegmentLen(_, _)
SegmentLen(s, i) ==
    IF i > Len(s) \/ s[i] = "/" THEN 0 ELSE 1 + SegmentLen(s, i + 1)

\* s.replace(/\/[^/]+\/\.\.\//g, '/') : leftmost matches, never overlapping
RECURSIVE ReplaceParentSegments(_)
ReplaceParentSegments(s) ==
    IF Len(s) < 6 THEN s
    ELSE LET n == SegmentLen(s, 2)
         IN  IF /\ s[1] = "/"
                /\ n >= 1
                /\ Len(s) >= n + 5
                /\ SubSeq(s, n + 2, n + 5) = <<"/", ".", ".", "/">>
             THEN Slash \o ReplaceParentSegments(SubSeq(s, n + 6, Len(s)))
             ELSE <<s[1]>> \o ReplaceParentSegments(Tail(s))

\* resolved.replace(/\/\.\//g, '/').replace(/\/[^/]+\/\.\.\//g, '/')
Normalize(resolved) == ReplaceParentSegments(ReplaceDotSegments(resolved))

\* (baseDir ? baseDir + '/' : '') + cleaned
JoinBase(baseDir, cleaned) ==
    IF baseDir # <<>> THEN baseDir \o Slash \o cleaned ELSE cleaned

\* lines.join('\n')
RECURSIVE JoinLines(_)
JoinLines(lines) ==
    IF lines = <<>> THEN <<>>
    ELSE IF Len(lines) = 1 THEN lines[1]
         ELSE lines[1] \o <<"\n">> \o JoinLines(Tail(lines))


\* c.toLowerCase() for the letters that occur in language names
LowerChar(c) ==
    CASE c = "J" -> "j" [] c = "S" -> "s" [] c = "O" -> "o" [] c = "N" -> "n"
      [] OTHER -> c

\* s.toLowerCase()
ToLower(s) == [i \in 1..Len(s) |-> LowerChar(s[i])]

\* s.endsWith(p)
EndsWith(s, p) == Len(s) >= Len(p) /\ SubSeq(s, Len(s) - Len(p) + 1, Len(s)) = p

(***************************************************************************)
(* Values of the executed language                                         *)
(***************************************************************************)
Undefined == [t |-> "undefined"]
Null == [t |-> "null"]
StrV(s) == [t |-> "string", s |-> s]
RefV(i) == [t |-> "object", id |-> i]

\* an Error's message: a fixed text followed by an interpolated string
Msg(txt, arg) == [txt |-> txt, arg |-> arg]

\* truthiness of err.message
MsgTruthy(m) == ~(m.txt = "" /\ m.arg = <<>>)

\* the value of sandbox.__currentModulePath while it is unset
NoPath == <<"undefined">>

\* String(result)
ToStr(v) == IF v.t = "string" THEN v.s ELSE <<"[object Object]">>

(***************************************************************************)
(* Statements of submitted programs                                        *)
(***************************************************************************)
Op(o, s, n, k, body) == [op |-> o, s |-> s, n |-> n, k |-> k, body |-> body]
\* console.log(l) / console.warn(l) / console.error(l)
Log(l) == Op("log", l, 0, "", <<>>)
\* throw new Error(m)
Throw(m) == Op("throw", m, 0, "", <<>>)
\* r = require(s)
Req(s) == Op("require", s, 0, "", <<>>)
\* try { r = require(s) } catch (e) {}
TryReq(s) == Op("tryrequire", s, 0, "", <<>>)
\* console.log(r.add(2, 3))
UseAdd == Op("useadd", <<>>, 0, "", <<>>)
\* synchronous work that takes d milliseconds
Spin(d) == Op("spin", <<>>, d, "", <<>>)
\* while (true) {}
Loop == Op("loop", <<>>, 0, "", <<>>)
\* await of a promise that settles (n = 1) or never settles (n = 0)
Await(n) == Op("await", <<>>, n, "", <<>>)
\* return 's'
Ret(s) == Op("return", s, 0, "", <<>>)
\* module.exports = { add: (a, b) => a + b }
ExportAdd == Op("exports", <<>>, 0, "add", <<>>)
\* module.exports = async () => { body }
ExportFn(body) == Op("exports", <<>>, 0, "fn", body)
\* const __main = require('./<entry>')
\* if (typeof __main === 'function') { return await __main(); }
\* return '';
BootstrapProgram(entry) ==
    << Req(<<".", "/">> \o entry),
       Op("callmain", <<>>, 0, "", <<>>),
       Await(1),
       Op("returnreg", <<>>, 0, "", <<>>) >>

(***************************************************************************)
(* Request validation and the virtual file table                           *)
(***************************************************************************)
\* the vm timeouts, in milliseconds
ModuleLoadTimeout == 200
SingleFileTimeout == 500
BootstrapTimeout == 800

\* !code || typeof code !== 'string'
CodeMissing(code) == code.t # "string" \/ code.v = <<>>

\* /^js|javascript$/i.test(language): begins with "js" or ends with "javascript"
LanguageMatches(language) ==
    \/ StartsWith(ToLower(language), <<"j", "s">>)
    \/ EndsWith(ToLower(language), <<"j", "a", "v", "a", "s", "c", "r", "i", "p", "t">>)

\* !language || !/^js|javascript$/i.test(language)
LanguageRejected(language) ==
    language.t # "string" \/ language.v = <<>> \/ ~LanguageMatches(language.v)

\* workspace && Array.isArray(workspace.files) && typeof workspace.entryPath === 'string'
WorkspaceMode(workspace) ==
    workspace.present /\ workspace.filesIsArray /\ workspace.entryIsString

\* !f || typeof f.path !== 'string' || typeof f.content !== 'string'
FileSkipped(f) == f.t = "null" \/ ~f.pathIsString \/ ~f.contentIsString

\* for (const f of workspace.files) { ...; files[p] = f.content; }
RECURSIVE BuildFiles(_, _)
BuildFiles(list, acc) ==
    IF list = <<>> THEN acc
    ELSE LET f == Head(list)
         IN  IF FileSkipped(f) THEN BuildFiles(Tail(list), acc)
             ELSE BuildFiles(Tail(list),
                             (ReplaceBackslashes(f.path) :> f.content) @@ acc)

\* files[p] is falsy: no such key, or empty content
FileAbsent(table, p) == p \notin DOMAIN table \/ table[p] = <<>>

EmptyTable == [p \in {} |-> <<>>]

(***************************************************************************)
(* The virtual require                                                     *)
(***************************************************************************)
\* sandbox.__currentModulePath || entry
StackTop(cur, ent) == IF cur = NoPath \/ cur = <<>> THEN ent ELSE cur

\* the key under which requireVirtual looks the specifier up
ResolveTarget(specifier, cur, ent) ==
    Normalize(JoinBase(DirName(StackTop(cur, ent)), ReplaceBackslashes(specifier)))

\* a guard that also lets absolute specifiers through
NotRelative_AbsoluteAllowed(cleaned) ==
    /\ ~StartsWith(cleaned, <<".", "/">>)
    /\ ~StartsWith(cleaned, <<".", ".", "/">>)
    /\ ~StartsWith(cleaned, <<"/">>)

\* !cleaned.startsWith('./') && !cleaned.startsWith('../')
NotRelative(cleaned) ==
    ~StartsWith(cleaned, <<".", "/">>) /\ ~StartsWith(cleaned, <<".", ".", "/">>)

\* a require that never consults the module cache
RequireVirtual_NoCache(specifier, cur, ent, table, cache) ==
    LET cleaned == ReplaceBackslashes(specifier)
        target == ResolveTarget(specifier, cur, ent)
    IN  IF NotRelative(cleaned)
        THEN [kind |-> "throw", target |-> <<>>,
              err |-> [code |-> "Error", message |-> Msg("Only relative requires are allowed", <<>>)]]
        ELSE IF FileAbsent(table, target)
        THEN [kind |-> "throw", target |-> target,
              err |-> [code |-> "Error", message |-> Msg("Module not found: ", specifier)]]
        ELSE [kind |-> "load", target |-> target, err |-> Null]

\* what one call of requireVirtual does before any module body runs
RequireVirtual(specifier, cur, ent, table, cache) ==
    LET cleaned == ReplaceBackslashes(specifier)
        target == ResolveTarget(specifier, cur, ent)
    IN  IF NotRelative(cleaned)
        THEN [kind |-> "throw", target |-> <<>>,
              err |-> [code |-> "Error", message |-> Msg("Only relative requires are allowed", <<>>)]]
        ELSE IF FileAbsent(table, target)
        THEN [kind |-> "throw", target |-> target,
              err |-> [code |-> "Error", message |-> Msg("Module not found: ", specifier)]]
        ELSE IF target \in DOMAIN cache
        THEN [kind |-> "cached", target |-> target, err |-> Null]
        ELSE [kind |-> "load", target |-> target, err |-> Null]

(***************************************************************************)
(* State                                                                   *)
(***************************************************************************)
VARIABLES
    phase,        \* "idle", "running" (request accepted), "responded"
    req,          \* req.body
    start,        \* const start = Date.now()
    now,          \* the clock read by Date.now()
    watch,        \* the vm timeout armed by script.runInContext
    logs,         \* sandbox.console.logs
    files,        \* the virtual file table
    entry,        \* the normalised entry path
    moduleCache,  \* target -> module record
    heap,         \* the export objects created so far, by identity
    curPath,      \* sandbox.__currentModulePath
    stack,        \* call stack of the executed code
    unit,         \* state of the top-level unit and of its promise
    result,       \* the value the top-level promise was fulfilled with
    err,          \* the error caught by the handler
    response,     \* what res.status(..).json(..) was called with
    executions,   \* the process-wide executions store
    calls,        \* history: the calls of requireVirtual, in order
    rets,         \* history: the export objects requireVirtual returned, in order
    said,         \* history: the console calls, in order, with the calling module
    parked,       \* the locals of the other invocation of the handler
    ide           \* the state of the IDE: its files, active file and entry path

vars == <<phase, req, start, now, watch, logs, files, entry, moduleCache, heap,
          curPath, stack, unit, result, err, response, executions, calls, rets,
          said, parked, ide>>

NoRequest == [none |-> TRUE]
NoResponse == [none |-> TRUE]
NoWatch == [timeout |-> 0, since |-> 0]

Frame(kind, ops, target, prev) ==
    [kind |-> kind, ops |-> ops, pc |-> 1, r |-> Undefined, target |-> target, prev |-> prev]

TopFrame == stack[Len(stack)]
AtEnd == TopFrame.pc > Len(TopFrame.ops)
CurOp == TopFrame.ops[TopFrame.pc]
Executing == phase = "running" /\ unit \in {"sync", "async"} /\ stack # <<>>
At(o) == Executing /\ ~AtEnd /\ CurOp.op = o

Pop(stk) == SubSeq(stk, 1, Len(stk) - 1)
SetTop(stk, f) == [stk EXCEPT ![Len(stk)] = f]
\* the statement of the top frame completes with value v
Advance(stk, v) == SetTop(stk, [stk[Len(stk)] EXCEPT !.pc = @ + 1, !.r = v])

\* the modules whose body is being executed
Loading == {stack[i].target : i \in {j \in 1..Len(stack) : stack[j].kind = "module"}}

(***************************************************************************)
(* Exceptions: an exception leaves frame after frame until a frame whose   *)
(* current statement is a try-require catches it; leaving a module frame   *)
(* runs the finally of requireVirtual.                                     *)
(***************************************************************************)
\* an unwinding that leaves the pointer as the throwing module set it
RECURSIVE Unwind_NoFinally(_, _)
Unwind_NoFinally(stk, cur) ==
    IF stk = <<>> THEN [stack |-> <<>>, cur |-> cur, caught |-> FALSE]
    ELSE LET f == stk[Len(stk)]
         IN  IF f.pc <= Len(f.ops) /\ f.ops[f.pc].op = "tryrequire"
             THEN [stack |-> Advance(stk, Undefined), cur |-> cur, caught |-> TRUE]
             ELSE Unwind_NoFinally(Pop(stk), cur)

RECURSIVE Unwind(_, _)
Unwind(stk, cur) ==
    IF stk = <<>> THEN [stack |-> <<>>, cur |-> cur, caught |-> FALSE]
    ELSE LET f == stk[Len(stk)]
         IN  IF f.pc <= Len(f.ops) /\ f.ops[f.pc].op = "tryrequire"
             THEN [stack |-> Advance(stk, Undefined), cur |-> cur, caught |-> TRUE]
             ELSE Unwind(Pop(stk), IF f.kind = "module" THEN f.prev ELSE cur)

\* the executed code throws e at the current statement
Raise(e) ==
    LET u == Unwind(stack, curPath)
    IN  /\ stack' = u.stack
        /\ curPath' = u.cur
        /\ unit' = IF u.caught THEN unit ELSE "rejected"
        /\ err' = IF u.caught THEN err ELSE e

JsError(txt, arg) == [code |-> "Error", message |-> Msg(txt, arg)]
TimeoutError == [code |-> "ERR_SCRIPT_EXECUTION_TIMEOUT",
                 message |-> Msg("Script execution timed out", <<>>)]

(***************************************************************************)
(* Submitted programs and requests                                         *)
(***************************************************************************)
MaxFiles == 3
MaxHeapSample == 2
MaxClock == 1500
LoopSlice == 400
WorkTime == 300

DotSlash(name) == <<".", "/">> \o name
Climb == <<".", ".", "/", ".", ".", "/", "e">>

\* const {add} = require('./l'); console.log(add(2,3));
MainBody == << Req(DotSlash(<<"l">>)), UseAdd >>
\* module.exports = { add: (a,b) => a+b };
LibBody == << ExportAdd >>
\* try { require('./l') } catch {} ; try { require('fs') } catch {} ;
\* const {add} = require('.\\l'); console.log(add(2,3));
MixedBody ==
    << TryReq(DotSlash(<<"l">>)), TryReq(<<"f", "s">>), Req(<<".", "\\", "l">>), UseAdd >>
\* console.log('a'); throw new Error('x');
FailingBody == << Log(<<"a">>), Throw(<<"x">>) >>
\* console.log('c'); require('./m'); module.exports = { add: (a,b) => a+b };
CycleBody == << Log(<<"c">>), Req(DotSlash(<<"m">>)), ExportAdd >>
\* console.log('a'); require('../../e'); console.log('b'); require('/l');
ClimbBody == << Log(<<"a">>), Req(Climb), Log(<<"b">>), Req(<<"/", "l">>) >>
\* console.log('e');
LeafBody == << Log(<<"e">>) >>
\* module.exports = async () => { console.log('f'); await 0; return 'v'; };
InvocableBody == << ExportFn(<< Log(<<"f">>), Await(1), Ret(<<"v">>) >>) >>
\* console.log('a'); for (;;) {}
LoopBody == << Log(<<"a">>), Loop >>
\* console.log('a'); require('./e'); console.log('b');
InterleaveBody == << Log(<<"a">>), Req(DotSlash(<<"e">>)), Log(<<"b">>) >>

File(path, content) ==
    [t |-> "file", pathIsString |-> TRUE, path |-> path,
     contentIsString |-> TRUE, content |-> content]

FileEntries ==
    { File(<<"m">>, MainBody), File(<<"l">>, LibBody),
      File(DotSlash(<<"m">>), MixedBody), File(DotSlash(<<"l">>), LibBody),
      File(DotSlash(<<"l">>), FailingBody), File(DotSlash(<<"l">>), CycleBody),
      File(<<".", "\\", "m">>, ClimbBody), File(DotSlash(<<"e">>), LeafBody),
      File(DotSlash(<<"m">>), InvocableBody), File(DotSlash(<<"m">>), LoopBody),
      File(DotSlash(<<"m">>), InterleaveBody), File(<<"m">>, LibBody),
      [t |-> "file", pathIsString |-> FALSE, path |-> <<>>,
       contentIsString |-> TRUE, content |-> LeafBody] }

FileLists == UNION {[1..n -> FileEntries] : n \in 0..MaxFiles}

EntryPaths == { <<"m">>, <<".", "\\", "m">> }

NoWorkspace ==
    [present |-> FALSE, filesIsArray |-> FALSE, files |-> <<>>,
     entryIsString |-> FALSE, entryPath |-> <<>>]

Workspace(list, ent) ==
    [present |-> TRUE, filesIsArray |-> TRUE, files |-> list,
     entryIsString |-> TRUE, entryPath |-> ent]

\* a workspace whose files is not an array
FilesNotArray(ent) ==
    [present |-> TRUE, filesIsArray |-> FALSE, files |-> <<>>,
     entryIsString |-> TRUE, entryPath |-> ent]

\* a workspace whose entryPath is not a string
EntryNotString(list) ==
    [present |-> TRUE, filesIsArray |-> TRUE, files |-> list,
     entryIsString |-> FALSE, entryPath |-> <<>>]

\* workspaces with a key that holds a .. segment, with folders, with a module
\* that exports a function calling require, with a long-running module body,
\* and with files of empty content
ParentKey == <<".", ".", "/", "e">>
InFolder(dir, name) == dir \o Slash \o name
\* module.exports = async () => { require('./e'); return 'v'; };
RequiringFnBody == << ExportFn(<< Req(DotSlash(<<"e">>)), Ret(<<"v">>) >>) >>
\* busy work; console.log('e');
SlowBody == << Spin(WorkTime), Log(<<"e">>) >>
\* require('./a/b/x');
DeepEntryBody == << Req(DotSlash(<<"a", "/", "b", "/", "x">>)) >>
\* const {add} = require('../../l'); console.log(add(2,3));
DeepBody == << Req(<<".", ".", "/", ".", ".", "/", "l">>), UseAdd >>

ExtraWorkspaces ==
    { Workspace(<< File(<<"m">>, LibBody), File(ParentKey, LeafBody) >>, <<"m">>),
      Workspace(<< File(InFolder(<<"s">>, <<"m">>), LibBody),
                   File(InFolder(<<"s", "/", "s">>, <<"m">>), RequiringFnBody),
                   File(InFolder(<<"s">>, <<"e">>), LeafBody),
                   File(InFolder(<<"s", "/", "s">>, <<"e">>), LibBody) >>,
                InFolder(<<"s">>, <<"m">>)),
      Workspace(<< File(<<"m">>, LibBody), File(DotSlash(<<"m">>), SlowBody) >>, <<"m">>),
      Workspace(<< File(<<"m">>, LibBody), File(DotSlash(<<"m">>), DeepEntryBody),
                   File(DotSlash(<<"a", "/", "b", "/", "x">>), DeepBody),
                   File(DotSlash(<<"l">>), LibBody) >>, <<"m">>),
      Workspace(<< File(<<"m">>, <<>>) >>, <<"m">>),
      Workspace(<< File(<<"m">>, LibBody), File(DotSlash(<<"m">>), InterleaveBody),
                   File(DotSlash(<<"e">>), <<>>) >>, <<"m">>) }

Code(ops) == [t |-> "string", v |-> ops]
Language(l) == [t |-> "string", v |-> l]
JavaScript == Language(<<"j", "a", "v", "a", "s", "c", "r", "i", "p", "t">>)

SingleFileCodes ==
    { << Log(<<"h">>) >>,
      << Log(<<"a">>), Log(<<"b">>), Throw(<<"x">>) >>,
      << Throw(<<>>) >>,
      << Log(<<"a">>), Loop >>,
      << Spin(WorkTime), Log(<<"a">>), Spin(WorkTime), Log(<<"b">>) >>,
      << Log(<<"a">>), Await(0) >>,
      << Await(1), Loop >>,
      << Log(<<"a">>), Await(1), Spin(WorkTime), Spin(WorkTime), Ret(<<"v">>) >>,
      << Ret(<<"v">>) >>,
      << Spin(WorkTime), Await(1), Throw(<<"x">>) >>,
      << Log(<<"a">>), Req(DotSlash(<<"l">>)) >>,
      << Log(<<>>), Ret(<<"v">>) >> }

OtherLanguages ==
    { Language(<<"J", "S">>), Language(<<"p", "y", "t", "h", "o", "n">>),
      Language(<<"J", "S", "O", "N">>), Language(<<>>), [t |-> "undefined", v |-> <<>>] }

Request(code, language, workspace) ==
    [code |-> code, language |-> language, input |-> <<>>, workspace |-> workspace]

Requests ==
    {Request(Code(c), JavaScript, NoWorkspace) : c \in SingleFileCodes}
    \cup {Request(Code(<< Log(<<"h">>) >>), l, NoWorkspace) : l \in OtherLanguages}
    \cup {Request(Code(<<>>), JavaScript, NoWorkspace),
          Request([t |-> "undefined", v |-> <<>>], JavaScript, NoWorkspace)}
    \cup {Request(Code(<< Log(<<"h">>) >>), JavaScript, Workspace(fl, e)) :
             fl \in FileLists, e \in EntryPaths}
    \cup {Request(Code(<< Log(<<"h">>) >>), JavaScript, w) : w \in ExtraWorkspaces}
    \cup {Request(Code(<< Log(<<"h">>) >>), JavaScript, FilesNotArray(<<"m">>)),
          Request(Code(<< Log(<<"h">>) >>), JavaScript,
                  EntryNotString(<< File(<<"m">>, LibBody) >>))}

(***************************************************************************)
(* The workspace of the IDE (src/components/ide/CodeEditor.tsx): the       *)
(* files, the active file and the entry path the editor keeps, and the     *)
(* submission handleRun builds from them                                   *)
(***************************************************************************)
ROOT_FOLDER == <<"w", "o", "r", "k", "s", "p", "a", "c", "e">>

\* s.replace(/^\/+/, '')
RECURSIVE StripLeadingSlashes(_)
StripLeadingSlashes(s) ==
    IF s = <<>> THEN s
    ELSE IF Head(s) = "/" THEN StripLeadingSlashes(Tail(s)) ELSE s

\* s.replace(/\.\./g, '')
RECURSIVE RemoveDotPairs(_)
RemoveDotPairs(s) ==
    IF Len(s) < 2 THEN s
    ELSE IF s[1] = "." /\ s[2] = "." THEN RemoveDotPairs(SubSeq(s, 3, Len(s)))
    ELSE <<s[1]>> \o RemoveDotPairs(Tail(s))

\* s.replace(/\/+/, '/'): without the g flag, only the first run of slashes
RECURSIVE ReplaceFirstSlashRun(_)
ReplaceFirstSlashRun(s) ==
    IF s = <<>> THEN s
    ELSE IF Head(s) = "/" THEN Slash \o StripLeadingSlashes(Tail(s))
    ELSE <<Head(s)>> \o ReplaceFirstSlashRun(Tail(s))

normalizePath(p) ==
    LET cleaned == StripLeadingSlashes(ReplaceBackslashes(p))
        safe == RemoveDotPairs(cleaned)
    IN  ReplaceFirstSlashRun(ROOT_FOLDER \o Slash \o safe)

TypeScript == <<"t", "y", "p", "e", "s", "c", "r", "i", "p", "t">>
Python == <<"p", "y", "t", "h", "o", "n">>

\* language === 'typescript' ? 'ts' : 'js'
Extension(language) == IF language = TypeScript THEN <<"t", "s">> ELSE <<"j", "s">>

\* `${ROOT_FOLDER}/main.${ext}`
MainPath(language) ==
    ROOT_FOLDER \o Slash \o <<"m", "a", "i", "n", ".">> \o Extension(language)

\* String(n) of a count 1..9
Digit(n) == <<"1", "2", "3", "4", "5", "6", "7", "8", "9">>[n]

\* `${folder}/file${count}.${ext}`
NewFilePath(folder, count, ext) ==
    folder \o Slash \o <<"f", "i", "l", "e", Digit(count), ".">> \o ext

\* getDefaultCode(language): a template, never blank
getDefaultCode(language) == "template"

\* !code?.trim()
Blank(code) == code = ""

\* the id 'main' of the first file; the ids of the added files are clock
\* readings, `${Date.now()}`, all later than 0
MainId == 0

EditorFile(id, path, language, value) ==
    [id |-> id, path |-> path, language |-> language, value |-> value]

NoSubmission ==
    [sent |-> FALSE, language |-> <<>>, code |-> "", hasWorkspace |-> FALSE,
     files |-> <<>>, entryPath |-> <<>>]

\* the state of the component once it is mounted: the useState initial values
\* and the effect on activeFileId, which copies the active file into
\* currentLanguage and code
InitialIde ==
    [files |-> << EditorFile(MainId, MainPath(JavaScript.v), JavaScript.v,
                             getDefaultCode(JavaScript.v)) >>,
     activeFileId |-> MainId,
     newFileFolder |-> ROOT_FOLDER,
     entryPath |-> MainPath(JavaScript.v),
     currentLanguage |-> JavaScript.v,
     code |-> getDefaultCode(JavaScript.v),
     clock |-> 0,
     submission |-> NoSubmission]

MaxIdeFiles == 2
MaxIdeClock == 3


(***************************************************************************)
(* The handler                                                             *)
(***************************************************************************)
\* the locals of an invocation of executeCode that has not started
FreshHandler ==
    [phase |-> "idle", req |-> NoRequest, start |-> 0, watch |-> NoWatch,
     logs |-> <<>>, files |-> EmptyTable, entry |-> <<>>, moduleCache |-> EmptyTable,
     heap |-> <<>>, curPath |-> NoPath, stack |-> <<>>, unit |-> "none",
     result |-> Undefined, err |-> Null, response |-> NoResponse,
     calls |-> <<>>, rets |-> <<>>, said |-> <<>>]

Init ==
    /\ phase = "idle"
    /\ req = NoRequest
    /\ start = 0
    /\ now = 0
    /\ watch = NoWatch
    /\ logs = <<>>
    /\ files = EmptyTable
    /\ entry = <<>>
    /\ moduleCache = EmptyTable
    /\ heap = <<>>
    /\ curPath = NoPath
    /\ stack = <<>>
    /\ unit = "none"
    /\ result = Undefined
    /\ err = Null
    /\ response = NoResponse
    /\ executions = EmptyTable
    /\ calls = <<>>
    /\ rets = <<>>
    /\ said = <<>>
    /\ parked = FreshHandler
    /\ ide = InitialIde

\* res.status(400).json({ success: false, message })
BadRequest(message) ==
    [http |-> 400, success |-> FALSE, message |-> message, hasData |-> FALSE,
     data |-> [none |-> TRUE]]

\* executeCode up to the call of script.runInContext, or up to its 400 response
Submit(r) ==
    /\ phase = "idle"
    /\ req' = r
    /\ UNCHANGED <<now, moduleCache, heap, curPath, result, err, executions, calls, rets,
                   parked, ide>>
    /\ IF CodeMissing(r.code)
       THEN /\ response' = BadRequest("Code is required")
            /\ phase' = "responded"
            /\ UNCHANGED <<start, watch, logs, said, files, entry, stack, unit>>
       ELSE IF LanguageRejected(r.language)
       THEN /\ response' = BadRequest("Only JavaScript execution is supported currently")
            /\ phase' = "responded"
            /\ UNCHANGED <<start, watch, logs, said, files, entry, stack, unit>>
       ELSE /\ start' = now
            /\ logs' = <<>>
            /\ said' = <<>>
            /\ IF WorkspaceMode(r.workspace)
               THEN LET table == BuildFiles(r.workspace.files, EmptyTable)
                        ent == ReplaceBackslashes(r.workspace.entryPath)
                    IN  /\ files' = table
                        /\ entry' = ent
                        /\ IF FileAbsent(table, ent)
                           THEN /\ response' = BadRequest("Entry file not found in workspace")
                                /\ phase' = "responded"
                                /\ UNCHANGED <<watch, stack, unit>>
                           ELSE /\ stack' = << Frame("bootstrap", BootstrapProgram(ent), NoPath, NoPath) >>
                                /\ watch' = [timeout |-> BootstrapTimeout, since |-> now]
                                /\ unit' = "sync"
                                /\ phase' = "running"
                                /\ UNCHANGED response
               ELSE /\ stack' = << Frame("top", r.code.v, NoPath, NoPath) >>
                    /\ watch' = [timeout |-> SingleFileTimeout, since |-> now]
                    /\ unit' = "sync"
                    /\ phase' = "running"
                    /\ UNCHANGED <<files, entry, response>>

\* a console that puts the newest line first
ConsolePush_Front(lines, line) == <<line>> \o lines

\* sandbox.console.logs.push(args.join(' '))
ConsolePush(lines, line) == Append(lines, line)

\* log: (...args) => sandbox.console.logs.push(args.join(' '))
StepLog ==
    /\ At("log")
    /\ logs' = ConsolePush(logs, CurOp.s)
    /\ said' = Append(said, [by |-> curPath, line |-> CurOp.s])
    /\ stack' = Advance(stack, Undefined)
    /\ UNCHANGED <<phase, req, parked, ide, start, now, watch, files, entry,
                   moduleCache, heap, curPath, unit, result, err, response,
                   executions, calls, rets>>

\* throw new Error(m) in the executed code
StepThrow ==
    /\ At("throw")
    /\ Raise(JsError("", CurOp.s))
    /\ UNCHANGED <<phase, req, parked, ide, start, now, watch, logs, said, files,
                   entry, moduleCache, heap, response, result, executions,
                   calls, rets>>

\* require(s) in the executed code: requireVirtual up to the call of the module body
StepRequire ==
    /\ At("require") \/ At("tryrequire")
    /\ UNCHANGED <<phase, req, parked, ide, start, now, watch, logs, said, files,
                   entry, response, result, executions>>
    /\ IF ~WorkspaceMode(req.workspace)
       THEN /\ Raise(JsError("require is not defined", <<>>))
            /\ UNCHANGED <<moduleCache, heap, calls, rets>>
       ELSE LET rv == RequireVirtual(CurOp.s, curPath, entry, files, moduleCache)
                call == [specifier |-> CurOp.s, from |-> StackTop(curPath, entry),
                         kind |-> rv.kind, target |-> rv.target, err |-> rv.err,
                         owner |-> TopFrame.target, at |-> now]
            IN  /\ calls' = Append(calls, call)
                /\ CASE rv.kind = "throw" ->
                          /\ Raise(rv.err)
                          /\ UNCHANGED <<moduleCache, heap, rets>>
                     [] rv.kind = "cached" ->
                          /\ stack' = Advance(stack, RefV(moduleCache[rv.target].exports))
                          /\ rets' = Append(rets, [target |-> rv.target,
                                                   obj |-> moduleCache[rv.target].exports,
                                                   partial |-> rv.target \in Loading,
                                                   kind |-> "cached", at |-> now])
                          /\ UNCHANGED <<moduleCache, heap, curPath, unit, err>>
                     [] rv.kind = "load" ->
                          /\ heap' = Append(heap, [kind |-> "plain", body |-> <<>>,
                                                   owner |-> rv.target])
                          /\ moduleCache' = (rv.target :> [exports |-> Len(heap) + 1]) @@ moduleCache
                          /\ stack' = Append(stack, Frame("module", files[rv.target], rv.target, curPath))
                          /\ curPath' = rv.target
                          /\ UNCHANGED <<unit, err, rets>>

\* module.exports = ... in a module body
StepExports ==
    /\ At("exports")
    /\ UNCHANGED <<phase, req, parked, ide, start, now, watch, logs, said, files,
                   entry, response, result, executions, calls, rets>>
    /\ IF TopFrame.kind = "module"
       THEN /\ heap' = Append(heap, [kind |-> CurOp.k, body |-> CurOp.body,
                                     owner |-> TopFrame.target])
            /\ moduleCache' = [moduleCache EXCEPT ![TopFrame.target] = [exports |-> Len(heap) + 1]]
            /\ stack' = Advance(stack, Undefined)
            /\ UNCHANGED <<curPath, unit, err>>
       ELSE /\ Raise(JsError("module is not defined", <<>>))
            /\ UNCHANGED <<moduleCache, heap>>

\* console.log(r.add(2, 3)) in the executed code
StepUseAdd ==
    /\ At("useadd")
    /\ UNCHANGED <<phase, req, parked, ide, start, now, watch, files, entry,
                   moduleCache, heap, response, result, executions, calls, rets>>
    /\ IF TopFrame.r.t = "object" /\ heap[TopFrame.r.id].kind = "add"
       THEN /\ logs' = ConsolePush(logs, <<"5">>)
            /\ said' = Append(said, [by |-> curPath, line |-> <<"5">>])
            /\ stack' = Advance(stack, Undefined)
            /\ UNCHANGED <<curPath, unit, err>>
       ELSE /\ Raise(JsError("add is not a function", <<>>))
            /\ UNCHANGED <<logs, said>>

\* the vm timeout would expire during the current statement
Overrun ==
    /\ unit = "sync"
    /\ \/ At("loop")
       \/ At("spin") /\ now + CurOp.n - watch.since > watch.timeout

\* synchronous work that ends before the vm timeout expires, or runs without one
StepSpin ==
    /\ At("spin")
    /\ ~Overrun
    /\ now' = now + CurOp.n
    /\ stack' = Advance(stack, Undefined)
    /\ UNCHANGED <<phase, req, parked, ide, start, watch, logs, said, files, entry,
                   moduleCache, heap, curPath, unit, result, err, response,
                   executions, calls, rets>>

\* script.runInContext(context, { timeout }) throws: the running code is
\* terminated without running catch or finally blocks
WatchdogFires ==
    /\ Overrun
    /\ now' = watch.since + watch.timeout + 1
    /\ stack' = <<>>
    /\ unit' = "terminated"
    /\ err' = TimeoutError
    /\ UNCHANGED <<phase, req, parked, ide, start, watch, logs, said, files, entry,
                   moduleCache, heap, curPath, result, response, executions,
                   calls, rets>>

\* an endless loop that runs after an await, where no vm timeout is armed
LoopForever ==
    /\ At("loop")
    /\ unit = "async"
    /\ now < MaxClock
    /\ now' = now + LoopSlice
    /\ UNCHANGED <<phase, req, parked, ide, start, watch, logs, said, files, entry,
                   moduleCache, heap, curPath, stack, unit, result, err,
                   response, executions, calls, rets>>

\* the unit reaches an await: runInContext returns the pending promise
StepAwait ==
    /\ At("await")
    /\ unit' = "suspended"
    /\ UNCHANGED <<phase, req, parked, ide, start, now, watch, logs, said, files,
                   entry, moduleCache, heap, curPath, stack, result, err,
                   response, executions, calls, rets>>

\* the awaited promise settles and the unit continues as a microtask
Resume ==
    /\ phase = "running"
    /\ unit = "suspended"
    /\ CurOp.n = 1
    /\ unit' = "async"
    /\ stack' = Advance(stack, TopFrame.r)
    /\ UNCHANGED <<phase, req, parked, ide, start, now, watch, logs, said, files,
                   entry, moduleCache, heap, curPath, result, err, response,
                   executions, calls, rets>>

\* if (typeof __main === 'function') { return await __main(); } return '';
StepCallMain ==
    /\ At("callmain")
    /\ UNCHANGED <<phase, req, parked, ide, start, now, watch, logs, said, files,
                   entry, moduleCache, heap, curPath, err, response, executions,
                   calls, rets>>
    /\ IF TopFrame.r.t = "object" /\ heap[TopFrame.r.id].kind = "fn"
       THEN /\ stack' = Append(stack, Frame("call", heap[TopFrame.r.id].body,
                                            heap[TopFrame.r.id].owner, NoPath))
            /\ UNCHANGED <<unit, result>>
       ELSE /\ stack' = <<>>
            /\ unit' = "fulfilled"
            /\ result' = StrV(<<>>)

\* a frame ends: by a return statement or after its last statement
StepReturn ==
    /\ Executing
    /\ IF AtEnd THEN TRUE ELSE CurOp.op \in {"return", "returnreg"}
    /\ UNCHANGED <<phase, req, parked, ide, start, now, watch, logs, said, files,
                   entry, moduleCache, heap, err, response, executions, calls>>
    /\ LET f == TopFrame
           v == IF AtEnd THEN Undefined
                ELSE IF CurOp.op = "return" THEN StrV(CurOp.s) ELSE f.r
       IN  CASE f.kind \in {"top", "bootstrap"} ->
                  /\ stack' = <<>>
                  /\ unit' = "fulfilled"
                  /\ result' = v
                  /\ UNCHANGED <<curPath, rets>>
             [] f.kind = "call" ->
                  /\ stack' = Advance(Pop(stack), v)
                  /\ UNCHANGED <<curPath, unit, result, rets>>
             [] f.kind = "module" ->
                  /\ curPath' = f.prev
                  /\ stack' = Advance(Pop(stack), RefV(moduleCache[f.target].exports))
                  /\ rets' = Append(rets, [target |-> f.target,
                                           obj |-> moduleCache[f.target].exports,
                                           partial |-> FALSE,
                                           kind |-> "load", at |-> now])
                  /\ UNCHANGED <<unit, result>>

\* output: stdout || (result !== undefined ? String(result) : '')
Output(lines, res) ==
    IF JoinLines(lines) # <<>> THEN JoinLines(lines)
    ELSE IF res # Undefined THEN ToStr(res) ELSE <<>>

\* errorMessage: err && err.message ? String(err.message) : 'Unknown error'
ErrorMessage(e) ==
    IF e # Null /\ MsgTruthy(e.message) THEN e.message ELSE Msg("Unknown error", <<>>)

\* a success payload that reports the status of the catch block
SuccessData_ErrorStatus(mem) ==
    [id |-> now, success |-> TRUE, output |-> Output(logs, result),
     executionTime |-> now - start, memoryUsage |-> mem, status |-> "error",
     errorMessage |-> Null]

\* the data of the 200 response built after the try block
SuccessData(mem) ==
    [id |-> now, success |-> TRUE, output |-> Output(logs, result),
     executionTime |-> now - start, memoryUsage |-> mem, status |-> "completed",
     errorMessage |-> Null]

\* a failure payload that reports success
FailureData_Succeeds(mem) ==
    [id |-> now, success |-> TRUE, output |-> <<>>,
     executionTime |-> now - start, memoryUsage |-> mem, status |-> "error",
     errorMessage |-> ErrorMessage(err)]

\* a failure payload that subtracts the clock readings the wrong way round
FailureData_TimeReversed(mem) ==
    [id |-> now, success |-> FALSE, output |-> <<>>,
     executionTime |-> start - now, memoryUsage |-> mem, status |-> "error",
     errorMessage |-> ErrorMessage(err)]

\* the data of the 200 response built in the catch block
FailureData(mem) ==
    [id |-> now, success |-> FALSE, output |-> <<>>,
     executionTime |-> now - start, memoryUsage |-> mem, status |-> "error",
     errorMessage |-> ErrorMessage(err)]

\* the handler continues after the await of the top-level promise, or in its catch
Respond ==
    /\ phase = "running"
    /\ unit \in {"fulfilled", "rejected", "terminated"}
    /\ phase' = "responded"
    /\ \E mem \in 1..MaxHeapSample :
         IF unit = "fulfilled"
         THEN /\ response' = [http |-> 200, success |-> TRUE,
                              message |-> "Code executed successfully",
                              hasData |-> TRUE, data |-> SuccessData(mem)]
              /\ executions' = (now :> SuccessData(mem)) @@ executions
         ELSE /\ response' = [http |-> 200, success |-> FALSE,
                              message |-> "Code execution failed",
                              hasData |-> TRUE, data |-> FailureData(mem)]
              /\ UNCHANGED executions
    /\ UNCHANGED <<req, parked, ide, start, now, watch, logs, said, files, entry,
                   moduleCache, heap, curPath, stack, unit, result, err, calls,
                   rets>>

\* a request arrives at POST /execute
Receive ==
    /\ phase = "idle"
    /\ \E r \in Requests : Submit(r)

Next ==
    \/ Receive
    \/ StepLog
    \/ StepThrow
    \/ StepRequire
    \/ StepExports
    \/ StepUseAdd
    \/ StepSpin
    \/ WatchdogFires
    \/ LoopForever
    \/ StepAwait
    \/ Resume
    \/ StepCallMain
    \/ StepReturn
    \/ Respond

Spec == Init /\ [][Next]_vars

(***************************************************************************)
(* Two invocations of the handler.  The runtime runs one invocation at a   *)
(* time and passes control to another one only where the running one waits *)
(* (before it starts, at an await, after its response).  The variables     *)
(* above are the locals of the invocation that runs; parked holds the      *)
(* locals of the other one.  The clock and the executions store belong to  *)
(* the process.                                                            *)
(***************************************************************************)
\* the locals of the invocation that runs
Handler ==
    [phase |-> phase, req |-> req, start |-> start, watch |-> watch,
     logs |-> logs, files |-> files, entry |-> entry, moduleCache |-> moduleCache,
     heap |-> heap, curPath |-> curPath, stack |-> stack, unit |-> unit,
     result |-> result, err |-> err, response |-> response,
     calls |-> calls, rets |-> rets, said |-> said]

\* one console array that every invocation writes to
SwitchTo_SharedConsole(other, mine) == [other EXCEPT !.logs = mine.logs]

\* what the invocation that continues sees: sandbox, files, moduleCache, start
\* and result are declared inside executeCode, one set for each invocation
SwitchTo(other, mine) == other

\* the invocation that runs waits, and the other one continues
Switch ==
    /\ phase \in {"idle", "responded"} \/ unit \in {"suspended", "fulfilled", "rejected"}
    /\ parked # Handler
    /\ LET h == SwitchTo(parked, Handler)
       IN  /\ phase' = h.phase
           /\ req' = h.req
           /\ start' = h.start
           /\ watch' = h.watch
           /\ logs' = h.logs
           /\ files' = h.files
           /\ entry' = h.entry
           /\ moduleCache' = h.moduleCache
           /\ heap' = h.heap
           /\ curPath' = h.curPath
           /\ stack' = h.stack
           /\ unit' = h.unit
           /\ result' = h.result
           /\ err' = h.err
           /\ response' = h.response
           /\ calls' = h.calls
           /\ rets' = h.rets
           /\ said' = h.said
    /\ parked' = Handler
    /\ UNCHANGED <<now, executions, ide>>

ConcurrentRequests ==
    {Request(Code(c), JavaScript, NoWorkspace) :
        c \in { << Log(<<"h">>) >>,
                << Log(<<"a">>), Log(<<"b">>), Throw(<<"x">>) >>,
                << Log(<<"a">>), Loop >>,
                << Await(1), Loop >>,
                << Log(<<"a">>), Await(1), Spin(WorkTime), Spin(WorkTime), Ret(<<"v">>) >> }}
    \cup {Request(Code(<< Log(<<"h">>) >>), JavaScript, Workspace(fl, <<"m">>)) :
             fl \in { << File(<<"m">>, MainBody), File(DotSlash(<<"m">>), InvocableBody) >>,
                      << File(<<"m">>, LibBody), File(DotSlash(<<"m">>), MixedBody),
                         File(DotSlash(<<"l">>), CycleBody) >> }}

\* a request arrives at POST /execute while another one may be in progress
ReceiveConcurrent ==
    /\ phase = "idle"
    /\ \E r \in ConcurrentRequests : Submit(r)

ConcurrentNext ==
    \/ ReceiveConcurrent
    \/ Switch
    \/ StepLog
    \/ StepThrow
    \/ StepRequire
    \/ StepExports
    \/ StepUseAdd
    \/ StepSpin
    \/ WatchdogFires
    \/ LoopForever
    \/ StepAwait
    \/ Resume
    \/ StepCallMain
    \/ StepReturn
    \/ Respond

ConcurrentSpec == Init /\ [][ConcurrentNext]_vars

\* the runtime runs every statement, microtask and continuation that is ready
FairSpec == Spec /\ WF_vars(Next)

\* the runtime runs the continuation of the handler once the awaited promise
\* has settled or runInContext has thrown
RespondFairSpec == Spec /\ WF_vars(Respond)

(***************************************************************************)
(* The actions of the IDE on its workspace                                 *)
(***************************************************************************)
handlerVars == <<phase, req, start, now, watch, logs, files, entry, moduleCache,
                 heap, curPath, stack, unit, result, err, response, executions,
                 calls, rets, said, parked>>

\* files.findIndex(f => f.id === id), counted from 1
FindIndex(list, id) == CHOOSE i \in 1..Len(list) : list[i].id = id

\* files.filter(f => f.id !== id)
RECURSIVE Without(_, _)
Without(list, id) ==
    IF list = <<>> THEN <<>>
    ELSE IF Head(list).id = id THEN Without(Tail(list), id)
    ELSE <<Head(list)>> \o Without(Tail(list), id)

\* files.find(f => f.id === activeFileId) || files[0]
ActiveFile(list, id) ==
    IF \E i \in 1..Len(list) : list[i].id = id THEN list[FindIndex(list, id)]
    ELSE list[1]

\* the effect on activeFileId: it runs when the id has changed and copies the
\* active file into currentLanguage and code
ActiveFileEffect(before, after) ==
    IF after.activeFileId = before.activeFileId \/ after.files = <<>> THEN after
    ELSE LET activeFile == ActiveFile(after.files, after.activeFileId)
         IN  [after EXCEPT !.currentLanguage = activeFile.language,
                           !.code = activeFile.value]

\* submission is what the action just taken has handed to
\* executeCodeMutation.mutate: nothing, unless the action is handleRun
NotSubmitting(state) == [state EXCEPT !.submission = NoSubmission]

addFile ==
    /\ Len(ide.files) < MaxIdeFiles
    /\ ide.clock < MaxIdeClock
    /\ LET count == Len(ide.files) + 1
           ext == Extension(ide.currentLanguage)
           folder == IF ide.newFileFolder = <<>> THEN ROOT_FOLDER ELSE ide.newFileFolder
           path == normalizePath(NewFilePath(folder, count, ext))
           id == ide.clock + 1
           file == EditorFile(id, path, ide.currentLanguage,
                              getDefaultCode(ide.currentLanguage))
       IN  ide' = NotSubmitting(ActiveFileEffect(ide,
                     [ide EXCEPT !.files = Append(ide.files, file),
                                 !.activeFileId = file.id,
                                 !.clock = id]))
    /\ UNCHANGED handlerVars

\* the delete button of the file at position i
removeFile(i) ==
    /\ i \in 1..Len(ide.files)
    /\ Len(ide.files) # 1
    /\ LET id == ide.files[i].id
           idx == FindIndex(ide.files, id)
           next == Without(ide.files, id)
           newIdx == IF idx - 1 > 1 THEN idx - 1 ELSE 1
       IN  ide' = NotSubmitting(ActiveFileEffect(ide,
                     [ide EXCEPT !.files = next,
                                 !.activeFileId = IF ide.activeFileId = id
                                                  THEN next[newIdx].id
                                                  ELSE ide.activeFileId]))
    /\ UNCHANGED handlerVars

\* the "Set Entry" button of the file at position i: the list it is drawn
\* from is filesUnderRoot, whose paths have gone through normalizePath
SetEntry(i) ==
    /\ i \in 1..Len(ide.files)
    /\ Len(ide.files) > 1
    /\ ide' = [NotSubmitting(ide) EXCEPT !.entryPath = normalizePath(ide.files[i].path)]
    /\ UNCHANGED handlerVars

\* a click on the file at position i
SelectFile(i) ==
    /\ i \in 1..Len(ide.files)
    /\ ide' = NotSubmitting(ActiveFileEffect(ide,
                  [ide EXCEPT !.activeFileId = ide.files[i].id]))
    /\ UNCHANGED handlerVars

LatestLanguages == {JavaScript.v, TypeScript, Python}
LatestCodes == {"", "saved"}

\* the effect on latestCode, when the latest saved code has arrived
LatestCodeLoaded(language, code) ==
    /\ LET updated == EditorFile(ide.files[1].id, MainPath(ide.files[1].language),
                                 language, code)
       IN  ide' = [NotSubmitting(ide) EXCEPT !.files = <<updated>> \o Tail(ide.files),
                              !.currentLanguage = updated.language,
                              !.code = updated.value,
                              !.entryPath = updated.path]
    /\ UNCHANGED handlerVars

\* { path: normalizePath(f.path), content: f.value } of every file
SafeFiles(list) ==
    [i \in 1..Len(list) |-> [path |-> normalizePath(list[i].path),
                             content |-> list[i].value]]

handleRun ==
    /\ ~Blank(ide.code)
    /\ ide' = [ide EXCEPT !.submission =
                  IF LanguageMatches(ide.currentLanguage)
                  THEN [sent |-> TRUE, language |-> ide.currentLanguage,
                        code |-> ide.code, hasWorkspace |-> TRUE,
                        files |-> SafeFiles(ide.files),
                        entryPath |-> normalizePath(ide.entryPath)]
                  ELSE [sent |-> TRUE, language |-> ide.currentLanguage,
                        code |-> ide.code, hasWorkspace |-> FALSE,
                        files |-> <<>>, entryPath |-> <<>>]]
    /\ UNCHANGED handlerVars

IdeNext ==
    \/ addFile
    \/ \E i \in 1..MaxIdeFiles : removeFile(i)
    \/ \E i \in 1..MaxIdeFiles : SetEntry(i)
    \/ \E i \in 1..MaxIdeFiles : SelectFile(i)
    \/ \E l \in LatestLanguages, c \in LatestCodes : LatestCodeLoaded(l, c)
    \/ handleRun

IdeSpec == Init /\ [][IdeNext]_vars


(***************************************************************************)
(* Vocabulary of the properties                                            *)
(***************************************************************************)
WorkspaceRequest == req # NoRequest /\ WorkspaceMode(req.workspace)
SingleFileRequest == req # NoRequest /\ ~WorkspaceMode(req.workspace)
\* the handler has answered with an ExecutionResult
Answered == phase = "responded" /\ response.hasData
\* the terminal states of the orchestrator, read off the top-level unit
Errored == phase = "responded" /\ unit = "rejected"
StoppedByBudget == phase = "responded" /\ unit = "terminated"
FinishedNormally == phase = "responded" /\ unit = "fulfilled"

\* the access-denied condition of the virtual require
AccessDenied(e) == e # Null /\ e.message = Msg("Only relative requires are allowed", <<>>)

\* a specifier is syntactically relative: it begins with ./ or ../
BeginsRelative(s) ==
    \/ Len(s) >= 2 /\ s[1] = "." /\ s[2] = "/"
    \/ Len(s) >= 3 /\ s[1] = "." /\ s[2] = "." /\ s[3] = "/"

\* the segments of a path, split at '/'
RECURSIVE Segments(_)
Segments(s) ==
    IF LastSlash(s) = 0 THEN << s >>
    ELSE Append(Segments(SubSeq(s, 1, LastSlash(s) - 1)), SubSeq(s, LastSlash(s) + 1, Len(s)))

\* walking the segments from a directory at the given depth leaves the root
RECURSIVE LeavesRoot(_, _)
LeavesRoot(segs, depth) ==
    IF segs = <<>> THEN FALSE
    ELSE IF Head(segs) = <<".", ".">>
         THEN depth = 0 \/ LeavesRoot(Tail(segs), depth - 1)
         ELSE IF Head(segs) \in {<<".">>, <<>>}
              THEN LeavesRoot(Tail(segs), depth)
              ELSE LeavesRoot(Tail(segs), depth + 1)

\* a specifier required from the file at path `from` climbs above the workspace root
ClimbsAboveRoot(from, specifier) ==
    LET dir == DirName(from)
        cleaned == ReplaceBackslashes(specifier)
    IN  /\ BeginsRelative(cleaned)
        /\ LeavesRoot((IF dir = <<>> THEN <<>> ELSE Segments(dir)) \o Segments(cleaned), 0)

\* the lines of a history of console calls
Lines(history) == [i \in DOMAIN history |-> history[i].line]

\* the lines that the statements of a program can pass to the console
RECURSIVE LinesOf(_)
LinesOf(ops) ==
    UNION { IF ops[i].op = "log" THEN {ops[i].s}
            ELSE IF ops[i].op = "useadd" THEN {<<"5">>}
            ELSE IF ops[i].op = "exports" THEN LinesOf(ops[i].body)
            ELSE {} : i \in DOMAIN ops }

\* the table a request's own workspace describes
OwnTable(r) == BuildFiles(r.workspace.files, EmptyTable)

\* the lines that the program of a request can pass to the console
OwnLines(r) ==
    IF WorkspaceMode(r.workspace)
    THEN UNION { LinesOf(OwnTable(r)[p]) : p \in DOMAIN OwnTable(r) }
    ELSE LinesOf(r.code.v)

\* the language string names the supported language
NamesJavaScript(language) ==
    /\ language.t = "string"
    /\ ToLower(language.v) \in { <<"j", "s">>,
                                 <<"j", "a", "v", "a", "s", "c", "r", "i", "p", "t">> }

\* the request was rejected as invalid, and nothing was executed
RejectedAsInvalid ==
    /\ phase = "responded"
    /\ response.http = 400
    /\ ~response.hasData
    /\ unit = "none"
    /\ said = <<>>
    /\ calls = <<>>

\* a table key denotes a location inside the workspace root
InsideRoot(key) ==
    /\ key # <<>>
    /\ key[1] # "/"
    /\ \A i \in DOMAIN Segments(key) : Segments(key)[i] # <<".", ".">>

\* the segments of a path with its . segments dropped and its .. segments resolved
RECURSIVE Collapse(_, _)
Collapse(segs, acc) ==
    IF segs = <<>> THEN acc
    ELSE IF Head(segs) \in {<<".">>, <<>>} THEN Collapse(Tail(segs), acc)
    ELSE IF Head(segs) = <<".", ".">>
         THEN Collapse(Tail(segs), IF acc = <<>> THEN acc ELSE SubSeq(acc, 1, Len(acc) - 1))
         ELSE Collapse(Tail(segs), Append(acc, Head(segs)))

RECURSIVE JoinPath(_)
JoinPath(segs) ==
    IF segs = <<>> THEN <<>>
    ELSE IF Len(segs) = 1 THEN segs[1]
         ELSE segs[1] \o <<"/">> \o JoinPath(Tail(segs))

\* the canonical path a specifier denotes when required from the file at `from`
Canonical(from, specifier) ==
    LET dir == DirName(from)
    IN  JoinPath(Collapse((IF dir = <<>> THEN <<>> ELSE Segments(dir))
                             \o Segments(ReplaceBackslashes(specifier)), <<>>))

\* the module whose body is being executed, read off the call stack
RECURSIVE ExpectedPointer(_)
ExpectedPointer(stk) ==
    IF stk = <<>> THEN NoPath
    ELSE IF stk[Len(stk)].kind = "module" THEN stk[Len(stk)].target
         ELSE ExpectedPointer(SubSeq(stk, 1, Len(stk) - 1))

\* the status that corresponds to the terminal state of the top-level unit
TerminalStatus(u) ==
    CASE u = "fulfilled" -> "completed"
      [] u = "rejected" -> "error"
      [] u = "terminated" -> "timeout"
      [] OTHER -> "none"

(***************************************************************************)
(* C1: in workspace mode the bootstrap unit loads the module stored at      *)
(* exactly entryPath, and the workspace { m: "const {add} = require('./l'); *)
(* console.log(add(2,3))", l: "module.exports = {add}" } with entry m is    *)
(* answered with status "completed" and output "5".                         *)
(***************************************************************************)
ExampleTable == (<<"m">> :> MainBody) @@ (<<"l">> :> LibBody)

C1_EntryModuleLoaded ==
    /\ calls # <<>> => calls[1].kind = "load" /\ calls[1].target = entry
    /\ (phase = "responded" /\ WorkspaceRequest /\ files = ExampleTable /\ entry = <<"m">>)
          => /\ response.hasData
             /\ response.data.status = "completed"
             /\ response.data.output = <<"5">>

(***************************************************************************)
(* C2: when the top-level unit is stopped because it ran longer than its    *)
(* budget, the result has status "timeout" and success false.               *)
(***************************************************************************)
C2_BudgetStopReportsTimeout ==
    StoppedByBudget =>
        /\ response.hasData
        /\ response.data.status = "timeout"
        /\ response.data.success = FALSE

(***************************************************************************)
(* C3: every accepted request eventually reaches a terminal state and is    *)
(* answered, whatever the submitted program does.                           *)
(***************************************************************************)
C3_AcceptedRequestAnswered == (phase = "running") ~> (phase = "responded")

WellFormedResult(d, budget) ==
    /\ d.executionTime >= 0
    /\ d.status = "completed" => d.success = TRUE
    /\ d.status = "timeout" => d.success = FALSE /\ d.executionTime > budget

C5_ResultInvariants ==
    /\ Answered => WellFormedResult(response.data, watch.timeout)
    /\ \A id \in DOMAIN executions : WellFormedResult(executions[id], watch.timeout)

C5_Witness ==
    /\ Answered
    /\ StoppedByBudget
    /\ response.data.executionTime > 0
    /\ response.data.status = "error"

(***************************************************************************)
(* C6: when the run ends in Errored after console calls, every captured     *)
(* line is present, in order, in the output of the result.                  *)
(***************************************************************************)
C6_OutputKeptOnError ==
    Errored => response.hasData /\ response.data.output = JoinLines(logs)

(***************************************************************************)
(* C7: when the executed code throws, errorMessage equals the thrown        *)
(* message exactly, the empty message included.                             *)
(***************************************************************************)
C7_ErrorMessageVerbatim ==
    Errored => response.hasData /\ response.data.errorMessage = err.message

(***************************************************************************)
(* C8: within one request the body of the module stored under a path is     *)
(* executed at most once, also when its first load throws and it is         *)
(* required again, and every require of that path that returns after the    *)
(* load returns the same export object; a require issued while the module   *)
(* is still loading returns its in-progress export object.                  *)
(***************************************************************************)
C8_ModuleLoadedOnce ==
    /\ \A i, j \in DOMAIN calls :
          (i < j /\ calls[i].kind = "load" /\ calls[j].kind = "load")
             => calls[i].target # calls[j].target
    /\ \A i, j \in DOMAIN rets :
          (i < j /\ rets[i].target = rets[j].target /\ ~rets[i].partial /\ ~rets[j].partial)
             => rets[i].obj = rets[j].obj
    /\ \A j \in DOMAIN rets :
          \E i \in DOMAIN calls : calls[i].kind = "load" /\ calls[i].target = rets[j].target

C8_Witness ==
    /\ phase = "responded"
    /\ \E i, j \in DOMAIN calls :
          /\ i < j
          /\ calls[i].kind = "load"
          /\ calls[j].kind = "cached"
          /\ calls[i].target = calls[j].target
          /\ files[calls[i].target] = FailingBody

(***************************************************************************)
(* C9: a relative specifier whose ../ segments climb above the workspace    *)
(* root is rejected with the access-denied condition, and no module body    *)
(* is executed for it, whatever the file table contains.                    *)
(***************************************************************************)
C9_ClimbingSpecifierDenied ==
    \A i \in DOMAIN calls :
        ClimbsAboveRoot(calls[i].from, calls[i].specifier)
            => calls[i].kind = "throw" /\ AccessDenied(calls[i].err)

(***************************************************************************)
(* C10: a require whose specifier does not begin with ./ or ../ fails with  *)
(* the access-denied condition before any file-table lookup or module       *)
(* execution, and the request is answered with success false.               *)
(***************************************************************************)
C10_NonRelativeDeniedAndFailed ==
    /\ \A i \in DOMAIN calls :
          ~BeginsRelative(calls[i].specifier)
             => calls[i].kind = "throw" /\ AccessDenied(calls[i].err)
    /\ (phase = "responded" /\ \E i \in DOMAIN calls : ~BeginsRelative(calls[i].specifier))
          => response.hasData /\ response.data.success = FALSE

\* C10 as amended: the guard reads the specifier with its backslashes replaced
\* by slashes; a specifier that then does not begin with ./ or ../ is denied
\* before any lookup or module execution; when the executed code does not
\* catch that failure, the request is answered with success false.
C10_NonRelativeDenied ==
    /\ \A i \in DOMAIN calls :
          ~BeginsRelative(ReplaceBackslashes(calls[i].specifier))
             => /\ calls[i].kind = "throw"
                /\ AccessDenied(calls[i].err)
                /\ calls[i].target = <<>>
    /\ (phase = "responded" /\ unit = "rejected" /\ AccessDenied(err))
          => response.hasData /\ response.data.success = FALSE

C10_Witness ==
    /\ phase = "responded"
    /\ unit = "rejected"
    /\ AccessDenied(err)
    /\ response.data.success = FALSE
    /\ \E i \in DOMAIN calls :
          /\ calls[i].specifier = <<"/", "l">>
          /\ calls[i].from = <<".", "/", "m">>
          /\ AccessDenied(calls[i].err)

(***************************************************************************)
(* C11: the console calls of one request, made by the entry module and by   *)
(* nested modules, append to one shared sequence in the order of the calls, *)
(* and the output built from the captured lines lists them in that order.   *)
(* (An answer that shows no console text is the subject of C6 and C12.)     *)
(***************************************************************************)
C11_OutputInCallOrder ==
    /\ logs = Lines(said)
    /\ (FinishedNormally /\ JoinLines(Lines(said)) # <<>>)
          => response.data.output = JoinLines(Lines(said))

C11_Witness ==
    /\ FinishedNormally
    /\ said = << [by |-> DotSlash(<<"m">>), line |-> <<"a">>],
                 [by |-> DotSlash(<<"e">>), line |-> <<"e">>],
                 [by |-> DotSlash(<<"m">>), line |-> <<"b">>] >>
    /\ response.data.output = <<"a", "\n", "e", "\n", "b">>

(***************************************************************************)
(* C12: on completion, when at least one console line was captured (an      *)
(* empty line included) the output is built from the captured lines and     *)
(* the return value is not used; the return value is used only when no      *)
(* line was captured.                                                       *)
(***************************************************************************)
C12_CapturedLinesTakePrecedence ==
    FinishedNormally =>
        response.data.output =
            IF said # <<>> THEN JoinLines(Lines(said))
            ELSE IF result # Undefined THEN ToStr(result) ELSE <<>>

(***************************************************************************)
(* C13: in workspace mode, when the entry module loads without fault and    *)
(* its export is not invocable (here: the entry file only assigns an        *)
(* object to module.exports), the request is answered with status           *)
(* "completed", success true and empty output.                              *)
(***************************************************************************)
C13_NonInvocableEntryCompletes ==
    (phase = "responded" /\ WorkspaceRequest /\ entry \in DOMAIN files
        /\ files[entry] = LibBody)
        => /\ response.hasData
           /\ response.data.status = "completed"
           /\ response.data.success = TRUE
           /\ response.data.output = <<>>

(***************************************************************************)
(* C14: the budget armed for a single-file unit is greater than the budget  *)
(* armed for the workspace bootstrap unit, which is greater than the        *)
(* budget of one module load.                                               *)
(***************************************************************************)
C14_BudgetsStrictlyOrdered ==
    phase = "running" =>
        /\ watch.timeout = IF WorkspaceRequest THEN BootstrapTimeout ELSE SingleFileTimeout
        /\ SingleFileTimeout > BootstrapTimeout
        /\ BootstrapTimeout > ModuleLoadTimeout

(***************************************************************************)
(* C15: a request whose language is not "javascript" or "js" (in any        *)
(* letter case) is rejected as a validation failure and no code is          *)
(* executed.                                                                *)
(***************************************************************************)
C15_OnlyJavaScriptAccepted ==
    (req # NoRequest /\ ~NamesJavaScript(req.language)) => RejectedAsInvalid

(***************************************************************************)
(* C16: a request that carries a workspace of malformed shape (files is not *)
(* a list, or entryPath is not a string) is rejected as invalid: no unit    *)
(* is executed, the submitted code included, and no ExecutionResult is      *)
(* produced.                                                                *)
(***************************************************************************)
C16_MalformedWorkspaceRejected ==
    (req # NoRequest /\ req.workspace.present
        /\ ~(req.workspace.filesIsArray /\ req.workspace.entryIsString))
        => RejectedAsInvalid

(***************************************************************************)
(* C17: a workspace request is rejected with a request-level validation     *)
(* error, executing nothing, whenever entryPath is not a key of the table   *)
(* or some submitted file entry has a path that is not a string.            *)
(***************************************************************************)
C17_TableBuildRejects ==
    (req # NoRequest /\ WorkspaceMode(req.workspace)
        /\ \/ ReplaceBackslashes(req.workspace.entryPath) \notin DOMAIN OwnTable(req)
           \/ \E i \in DOMAIN req.workspace.files : ~req.workspace.files[i].pathIsString)
        => RejectedAsInvalid

Isolated(h) ==
    h.phase # "idle" =>
        /\ h.logs = Lines(h.said)
        /\ \A i \in DOMAIN h.logs : h.logs[i] \in OwnLines(h.req)
        /\ (h.phase = "responded" /\ h.unit = "fulfilled" /\ JoinLines(h.logs) # <<>>)
              => h.response.data.output = JoinLines(Lines(h.said))
        /\ IF WorkspaceMode(h.req.workspace)
           THEN /\ h.files = OwnTable(h.req)
                /\ DOMAIN h.moduleCache \subseteq DOMAIN OwnTable(h.req)
                /\ h.curPath \in DOMAIN OwnTable(h.req) \cup {NoPath}
                /\ \A i \in DOMAIN h.stack :
                      h.stack[i].kind = "module"
                         => /\ h.stack[i].target \in DOMAIN OwnTable(h.req)
                            /\ h.stack[i].ops = OwnTable(h.req)[h.stack[i].target]
                /\ \A i \in DOMAIN h.calls :
                      h.calls[i].kind \in {"load", "cached"}
                         => h.calls[i].target \in DOMAIN OwnTable(h.req)
           ELSE /\ h.moduleCache = EmptyTable
                /\ h.curPath = NoPath
                /\ h.calls = <<>>

C19_InvocationsIsolated == Isolated(Handler) /\ Isolated(parked)

C19_Witness ==
    /\ parked.unit = "suspended"
    /\ parked.logs = << <<"a">> >>
    /\ ~WorkspaceMode(parked.req.workspace)
    /\ WorkspaceRequest
    /\ phase = "responded"
    /\ unit = "fulfilled"
    /\ response.data.output = <<"c", "\n", "5">>
    /\ DOMAIN moduleCache = {DotSlash(<<"m">>), DotSlash(<<"l">>)}

(***************************************************************************)
(* C20: handling a request leaves every process-wide store unchanged; in    *)
(* particular no record of the execution result is kept.                    *)
(***************************************************************************)
C20_ProcessStoresUnchanged == [][executions' = executions]_vars

(***************************************************************************)
(* C21: for every request accepted in workspace mode, every key of the      *)
(* file table denotes a location under the workspace root: it is not        *)
(* absolute and holds no .. segment.                                        *)
(***************************************************************************)
C21_KeysInsideRoot ==
    (WorkspaceRequest /\ phase = "running") => \A k \in DOMAIN files : InsideRoot(k)

(***************************************************************************)
(* C22: a require call issued by code of the module at path P is resolved   *)
(* against the directory of P, during P's load and also when a function     *)
(* exported by P is invoked after P's load has returned.                    *)
(***************************************************************************)
C22_RequireScopedToOwner ==
    \A i \in DOMAIN calls :
        calls[i].owner # NoPath => DirName(calls[i].from) = DirName(calls[i].owner)

(***************************************************************************)
(* C23: for a relative specifier whose resolution stays inside the root,    *)
(* the resolver yields the canonical path, with every ./ and ../ segment    *)
(* collapsed, and finds the file stored under that key.                     *)
(***************************************************************************)
C23_ResolverCanonical ==
    \A i \in DOMAIN calls :
        (BeginsRelative(ReplaceBackslashes(calls[i].specifier))
            /\ ~ClimbsAboveRoot(calls[i].from, calls[i].specifier))
           => /\ calls[i].target = Canonical(calls[i].from, calls[i].specifier)
              /\ Canonical(calls[i].from, calls[i].specifier) \in DOMAIN files
                    => calls[i].kind # "throw"

(***************************************************************************)
(* C24: loading modules whose requires form a cycle does not recurse        *)
(* without bound: no module body is on the call stack twice, the stack is   *)
(* no deeper than the number of files allows, and a require of a module     *)
(* that is still loading returns at once with the export container that     *)
(* the cache holds, without a second load.                                  *)
(***************************************************************************)
C24_CyclicRequireTerminates ==
    /\ \A i, j \in DOMAIN stack :
          (i < j /\ stack[i].kind = "module" /\ stack[j].kind = "module")
             => stack[i].target # stack[j].target
    /\ Len(stack) <= Cardinality(DOMAIN files) + 2
    /\ \A j \in DOMAIN rets :
          rets[j].partial
             => /\ rets[j].kind = "cached"
                /\ Cardinality({i \in DOMAIN calls :
                                   calls[i].kind = "load" /\ calls[i].target = rets[j].target}) = 1

C24_Witness ==
    /\ FinishedNormally
    /\ \E j \in DOMAIN rets : rets[j].partial /\ rets[j].target = DotSlash(<<"m">>)
    /\ files[DotSlash(<<"l">>)] = CycleBody
    /\ response.data.output = <<"c", "\n", "5">>

(***************************************************************************)
(* C25: the execution of a loaded module's body is bounded by the           *)
(* per-module-load budget, also when the top-level budget has not elapsed.  *)
(***************************************************************************)
C25_ModuleBodyBounded ==
    \A j \in DOMAIN rets :
        rets[j].kind = "load"
           => \E i \in DOMAIN calls :
                 /\ calls[i].kind = "load"
                 /\ calls[i].target = rets[j].target
                 /\ rets[j].at - calls[i].at <= ModuleLoadTimeout

(***************************************************************************)
(* C26: an accepted request moves only from Pending to Running to one       *)
(* terminal state, which it never leaves; the one ExecutionResult it emits  *)
(* is not changed afterwards and carries the status of that terminal        *)
(* state.                                                                   *)
(***************************************************************************)
C26_OrchestratorStateMachine ==
    [][ /\ phase = "idle" => phase' \in {"idle", "running", "responded"}
        /\ phase = "running" => phase' \in {"running", "responded"}
        /\ phase = "responded" => (phase' = "responded" /\ response' = response)
        /\ (phase = "running" /\ phase' = "responded")
              => /\ response'.hasData
                 /\ response'.data.status = TerminalStatus(unit') ]_vars

(***************************************************************************)
(* C27: whether a path is found is decided by key membership, not by        *)
(* content: a file with empty content is accepted as the entry file and     *)
(* can be loaded by require.                                                *)
(***************************************************************************)
C27_EmptyFileIsPresent ==
    /\ (phase = "responded" /\ WorkspaceRequest
           /\ ReplaceBackslashes(req.workspace.entryPath) \in DOMAIN OwnTable(req))
          => response.message # "Entry file not found in workspace"
    /\ \A i \in DOMAIN calls :
          calls[i].target \in DOMAIN files => calls[i].kind # "throw"

(***************************************************************************)
(* C28: the ExecutionResults of two different requests carry different      *)
(* ids, also when both requests finish in the same millisecond.             *)
(***************************************************************************)
C28_ResultIdsDistinct ==
    (phase = "responded" /\ response.hasData
        /\ parked.phase = "responded" /\ parked.response.hasData)
        => response.data.id # parked.response.data.id

(***************************************************************************)
(* C30: the current-module pointer follows the call stack: while code runs  *)
(* it names the module whose body is being executed, so that after a        *)
(* require has returned or thrown it holds the value it had before the      *)
(* call, and once the unit has finished it is unset again.                  *)
(***************************************************************************)
C30_PointerStackDiscipline ==
    (phase # "idle" /\ unit # "terminated") => curPath = ExpectedPointer(stack)

C30_Witness ==
    /\ Executing
    /\ TopFrame.kind = "module"
    /\ TopFrame.target = DotSlash(<<"m">>)
    /\ TopFrame.pc = 2
    /\ curPath = DotSlash(<<"m">>)
    /\ Len(calls) = 2
    /\ calls[2].kind = "load"
    /\ calls[2].target = DotSlash(<<"l">>)
    /\ files[DotSlash(<<"l">>)] = FailingBody

(***************************************************************************)
(* C29: in the IDE, after any sequence of addFile, removeFile, set-entry   *)
(* and latest-code-loaded actions the file list is not empty, activeFileId *)
(* is the id of a file of the list and entryPath is the path of a file of  *)
(* the list, so that a workspace submitted by handleRun holds its own      *)
(* entryPath among its files.                                              *)
(***************************************************************************)
C29_IdeWorkspaceConsistent ==
    /\ ide.files # <<>>
    /\ \E i \in 1..Len(ide.files) : ide.files[i].id = ide.activeFileId
    /\ \E i \in 1..Len(ide.files) : ide.files[i].path = ide.entryPath
    /\ (ide.submission.sent /\ ide.submission.hasWorkspace)
          => \E i \in 1..Len(ide.submission.files) :
                ide.submission.files[i].path = ide.submission.entryPath

====
